---- MODULE Spec2Model ----
(***************************************************************************)
(* deca-delay: delay(ms), random(min, max) and until(condition, options).  *)
(* One behaviour of Spec is one call of one of the three functions,        *)
(* together with the host timer queue, the wall clock read by Date.now()   *)
(* and the caller-supplied condition function of until.  JavaScript runs   *)
(* every callback to completion, so each action is one whole synchronous   *)
(* run: the call itself, one timer callback, or the continuation of one    *)
(* await.  Polling is a caller that polls a variable which a timer of its  *)
(* own changes; Concurrent is two until calls in one process.              *)
(***************************************************************************)
EXTENDS Integers, Sequences, FiniteSets, TLC

VARIABLES
    now,        \* the wall clock, what Date.now() returns
    op,         \* which export was called: "none", "until", "delay", "random",
                \* "TimeoutError", "ValidationError"
    condition,  \* until: the value passed as condition
    options,    \* until: the options object, [interval, timeout] as passed
    interval,   \* until: const interval (resolved)
    timeout,    \* until: const timeout (resolved)
    startTime,  \* until: const startTime
    phase,      \* logical state of the call
    path,       \* until: the logical states the call has gone through, in order
    timers,     \* the host's pending single-shot timers armed by until and delay
    armed,      \* number of setTimeout calls made so far
    fired,      \* number of timer callbacks run so far
    inflight,   \* until: promises returned by condition() and not yet settled
    awaiting,   \* until: runs of check() suspended at `await result`
    calls,      \* until: number of condition() invocations so far
    results,    \* until: the outcomes of the checks completed so far
    condError,  \* until: the error condition() threw or rejected with, if any
    lastCheck,  \* until: when the last condition() returned and how its result came,
                \* when that check started and when its outcome was known, whether
                \* condition() returned a value with a callable then, and the
                \* same two times of the check before it
    outcome,    \* the returned promise: pending, fulfilled or rejected
    settledAt,  \* the clock when the returned promise settled
    thrown,     \* the exception the call threw synchronously, if any
    ms,         \* delay: the argument ms
    calledAt,   \* delay: the clock when delay was called
    rmin,       \* random: the argument min
    rmax,       \* random: the argument max
    counter,    \* the caller's variable that its condition function reads
    driver,     \* the caller's own timer, whose callback changes counter
    scen,       \* the caller's program: the numbers it passes to the host and to until
    peer,       \* another until call running in the same process
    made,       \* the error object a caller constructed, with the arguments it gave
    burst       \* number of checks started since the clock last advanced

vars == <<now, op, condition, options, interval, timeout, startTime, phase, path,
          timers, armed, fired, inflight, awaiting, calls, results, condError,
          lastCheck, outcome, settledAt, thrown, ms, calledAt, rmin, rmax,
          counter, driver, scen, peer, made, burst>>

untilVars == <<condition, options, interval, timeout, startTime, path, inflight,
               awaiting, calls, results, condError, lastCheck>>

callerVars == <<counter, driver, scen, peer, made, burst>>

(***************************************************************************)
(* Bounds of the model.                                                    *)
(***************************************************************************)
MaxTime == 4        \* the clock advances one unit at a time up to here
MaxChecks == 4      \* condition() invocations explored per until call
MaxArg == 2         \* largest explicit interval / ms / min / max tried
MaxTimeoutArg == 3  \* largest explicit timeout tried
RandDenom == 4      \* Math.random() is drawn from {0/4, 1/4, 2/4, 3/4}
MaxSyncTime == 1    \* longest synchronous run of condition() on the wall clock
MaxLate == 1        \* polling programs: how long after it is due a timer may fire
MaxPollChecks == 60  \* polling programs: condition() invocations explored
MaxBurst == 2       \* fair host: checks that can start at one clock value

(***************************************************************************)
(* JavaScript values, as far as the code inspects them: the typeof tag,    *)
(* the numeric value (or string length) and whether a callable `then`      *)
(* member is present.  A number is val + half / 2 when fin = "finite"      *)
(* (half is 0 or 1), and NaN or +Infinity otherwise.                       *)
(***************************************************************************)
Value(t, n, th) == [typ |-> t, val |-> n, then |-> th, half |-> 0, fin |-> "finite"]

Undefined == Value("undefined", 0, "none")
Null == Value("null", 0, "none")
Num(n) == Value("number", n, "none")
Str(len) == Value("string", len, "none")
Bool(b) == Value("boolean", IF b THEN 1 ELSE 0, "none")
Fn == Value("function", 0, "none")
PromiseObj == Value("object", 0, "function")
\* Object.assign(() => {}, { then(resolve) { ... } }): a function carrying a
\* callable then
FnThenable == Value("function", 0, "function")
\* { then: 42 }: an object whose then is not callable
ObjThenNotCallable == Value("object", 0, "number")

Half(n) == [Num(n) EXCEPT !.half = 1]       \* n + 0.5
NaN == [Num(0) EXCEPT !.fin = "NaN"]
Infinity == [Num(0) EXCEPT !.fin = "Infinity"]

IsFinite(x) == x.typ = "number" /\ x.fin = "finite"
IsInteger(x) == IsFinite(x) /\ x.half = 0

\* a finite number counted in halves
Halves(x) == 2 * x.val + x.half

\* a < b on numbers: every comparison with NaN is false
JsLess(a, b) ==
    CASE a.fin = "NaN" \/ b.fin = "NaN" -> FALSE
      [] a.fin = "Infinity" -> FALSE
      [] b.fin = "Infinity" -> TRUE
      [] OTHER -> Halves(a) < Halves(b)

TypeOf(v) == IF v.typ = "null" THEN "object" ELSE v.typ

Truthy(v) ==
    CASE v.typ \in {"undefined", "null"} -> FALSE
      [] v.typ = "number" -> v.fin = "Infinity" \/ (v.fin = "finite" /\ Halves(v) # 0)
      [] v.typ \in {"string", "boolean"} -> v.val # 0
      [] OTHER -> TRUE

\* a ?? b
Nullish(a, b) == IF a.typ \in {"undefined", "null"} THEN b ELSE a

(***************************************************************************)
(* Number formatting inside template literals: `${timeout}`.               *)
(***************************************************************************)
Digit(d) ==
    CASE d = 0 -> "0" [] d = 1 -> "1" [] d = 2 -> "2" [] d = 3 -> "3"
      [] d = 4 -> "4" [] d = 5 -> "5" [] d = 6 -> "6" [] d = 7 -> "7"
      [] d = 8 -> "8" [] d = 9 -> "9"

RECURSIVE NumToString(_)
NumToString(n) ==
    IF n < 0 THEN "-" \o NumToString(0 - n)
    ELSE IF n < 10 THEN Digit(n)
    ELSE NumToString(n \div 10) \o Digit(n % 10)

(***************************************************************************)
(* Error objects.  cls is the class the object was constructed from (what  *)
(* instanceof sees), ref tells objects apart that look alike.              *)
(***************************************************************************)
NoField == -1

NoError == [cls |-> "none", name |-> "", message |-> "", timeout |-> NoField, ref |-> "none"]

PlainError(msg, where) ==
    [cls |-> "Error", name |-> "Error", message |-> msg, timeout |-> NoField, ref |-> where]

\* the optional argument message?: string of the TimeoutError constructor
NoMessage == [typ |-> "undefined", text |-> ""]
NullMessage == [typ |-> "null", text |-> ""]
Message(s) == [typ |-> "string", text |-> s]

\* variant: a custom message takes the place of the timeout field as well
TimeoutErrorMsg_CustomDropsTimeout(t, message, where) ==
    [cls |-> "TimeoutError",
     name |-> "TimeoutError",
     message |-> IF message.typ \in {"undefined", "null"}
                 THEN "Condition not met within " \o NumToString(t) \o "ms timeout"
                 ELSE message.text,
     timeout |-> IF message.typ \in {"undefined", "null"} THEN t ELSE NoField,
     ref |-> where]

\* new TimeoutError(t, message); message ?? `Condition not met within ${t}ms timeout`
TimeoutErrorMsg(t, message, where) ==
    [cls |-> "TimeoutError",
     name |-> "TimeoutError",
     message |-> IF message.typ \in {"undefined", "null"}
                 THEN "Condition not met within " \o NumToString(t) \o "ms timeout"
                 ELSE message.text,
     timeout |-> t,
     ref |-> where]

TimeoutError(t) == TimeoutErrorMsg(t, NoMessage, "until")

ValidationError(msg, where) ==
    [cls |-> "ValidationError", name |-> "ValidationError", message |-> msg,
     timeout |-> NoField, ref |-> where]

InstanceOf(e, cls) == e.cls = cls \/ (cls = "Error" /\ e.cls # "none")

\* what a caller has constructed: nothing yet
NothingMade == [cls |-> "none", timeout |-> NoField, message |-> NoMessage, error |-> NoError]

DEFAULT_INTERVAL == 200
DEFAULT_TIMEOUT == 30000


(***************************************************************************)
(* The promise a call returns.                                             *)
(***************************************************************************)
NoPromise == [state |-> "none", value |-> Undefined, err |-> NoError]
Pending == [state |-> "pending", value |-> Undefined, err |-> NoError]
Fulfilled(v) == [state |-> "fulfilled", value |-> v, err |-> NoError]
Rejected(e) == [state |-> "rejected", value |-> Undefined, err |-> e]

\* resolve(v) / reject(e) on a promise: only the first settlement counts
Settle(p, q) == IF p.state = "pending" THEN q ELSE p

(***************************************************************************)
(* The inputs explored.                                                    *)
(***************************************************************************)
ConditionInputs == {Fn, Str(14), Null, Num(123)}
IntervalInputs == {Undefined, Null, Str(4)} \cup {Num(n) : n \in -1..MaxArg}
TimeoutInputs == {Undefined, Null, Str(4)} \cup {Num(n) : n \in -1..MaxTimeoutArg}
OptionsInputs == [interval : IntervalInputs, timeout : TimeoutInputs]

\* what one invocation of condition() can do: return a plain value, return a
\* promise, or throw
PlainValues == {Bool(TRUE), Bool(FALSE), Num(0), Num(1), Undefined}
PredErrors ==
    {PlainError("Condition check failed", "condition"),
     TimeoutErrorMsg(1, NoMessage, "condition")}
\* took: the time the synchronous run of condition() takes on the wall clock
CondBehaviours ==
    [how : {"return"}, value : PlainValues \cup {PromiseObj, FnThenable, ObjThenNotCallable},
     err : {NoError}, took : 0..MaxSyncTime]
        \cup [how : {"throw"}, value : {Undefined}, err : PredErrors, took : 0..MaxSyncTime]
\* how a promise returned by condition() can settle
Settlements ==
    [how : {"return"}, value : PlainValues, err : {NoError}]
        \cup [how : {"throw"}, value : {Undefined}, err : PredErrors]

(***************************************************************************)
(* until: validation.                                                      *)
(***************************************************************************)
\* variant: options.interval || DEFAULT_INTERVAL
ResolvedInterval_FalsyDefault(opts) ==
    IF Truthy(opts.interval) THEN opts.interval ELSE Num(DEFAULT_INTERVAL)

ResolvedInterval(opts) == Nullish(opts.interval, Num(DEFAULT_INTERVAL))
ResolvedTimeout(opts) == Nullish(opts.timeout, Num(DEFAULT_TIMEOUT))

\* typeof x !== 'number' || x < 0
NotNonNegativeNumber(x) == TypeOf(x) # "number" \/ JsLess(x, Num(0))

\* variant: the timeout is validated before the interval
UntilValidation_TimeoutFirst(cond, opts) ==
    IF TypeOf(cond) # "function"
    THEN PlainError("Condition must be a function", "until")
    ELSE IF NotNonNegativeNumber(ResolvedTimeout(opts))
    THEN PlainError("Timeout must be a non-negative number", "until")
    ELSE IF NotNonNegativeNumber(ResolvedInterval(opts))
    THEN PlainError("Interval must be a non-negative number", "until")
    ELSE NoError

UntilValidation(cond, opts) ==
    IF TypeOf(cond) # "function"
    THEN PlainError("Condition must be a function", "until")
    ELSE IF NotNonNegativeNumber(ResolvedInterval(opts))
    THEN PlainError("Interval must be a non-negative number", "until")
    ELSE IF NotNonNegativeNumber(ResolvedTimeout(opts))
    THEN PlainError("Timeout must be a non-negative number", "until")
    ELSE NoError

(***************************************************************************)
(* until: one run of check().  The result says which branch was taken and  *)
(* which of resolve / reject / setTimeout / await it executed.             *)
(***************************************************************************)
IsPromiseLike(v) ==
    /\ v.typ # "null"
    /\ TypeOf(v) = "object"
    /\ v.then # "none"
    /\ v.then = "function"

\* variant: the next timer is armed before the promise is awaited
DoAwait_AlsoArms ==
    [branch |-> "await", resolve |-> FALSE, reject |-> FALSE, err |-> NoError, arm |-> TRUE]

DoAwait ==
    [branch |-> "await", resolve |-> FALSE, reject |-> FALSE, err |-> NoError, arm |-> FALSE]
DoResolve ==
    [branch |-> "truthy", resolve |-> TRUE, reject |-> FALSE, err |-> NoError, arm |-> FALSE]
\* variant: no return after reject(), the run falls through to setTimeout
DoTimeout_StillArms(e) ==
    [branch |-> "timeout", resolve |-> FALSE, reject |-> TRUE, err |-> e, arm |-> TRUE]

DoTimeout(e) ==
    [branch |-> "timeout", resolve |-> FALSE, reject |-> TRUE, err |-> e, arm |-> FALSE]
\* variant: the caught error is wrapped in a new Error
DoCatch_Wrapped(e) ==
    [branch |-> "catch", resolve |-> FALSE, reject |-> TRUE,
     err |-> PlainError("Condition failed: " \o e.message, "until"), arm |-> FALSE]

\* variant: no try / catch around condition(): the error leaves check()
\* without reject being called
DoCatch_Escapes(e) ==
    [branch |-> "catch", resolve |-> FALSE, reject |-> FALSE, err |-> e, arm |-> FALSE]

\* variant: after reject(error) the run still arms the next timer
DoCatch_KeepsPolling(e) ==
    [branch |-> "catch", resolve |-> FALSE, reject |-> TRUE, err |-> e, arm |-> TRUE]

DoCatch(e) ==
    [branch |-> "catch", resolve |-> FALSE, reject |-> TRUE, err |-> e, arm |-> FALSE]
DoSetTimeout ==
    [branch |-> "again", resolve |-> FALSE, reject |-> FALSE, err |-> NoError, arm |-> TRUE]

\* variant: the timeout is tested before the result
OnResolved_TimeoutFirst(v, elapsed, to) ==
    IF elapsed >= to THEN DoTimeout(TimeoutError(to))
    ELSE IF Truthy(v) THEN DoResolve
    ELSE DoSetTimeout

\* variant: elapsed > timeout instead of elapsed >= timeout
OnResolved_StrictlyLater(v, elapsed, to) ==
    IF Truthy(v) THEN DoResolve
    ELSE IF elapsed > to THEN DoTimeout(TimeoutError(to))
    ELSE DoSetTimeout

\* variant: the TimeoutError carries the measured elapsed time
OnResolved_ElapsedInError(v, elapsed, to) ==
    IF Truthy(v) THEN DoResolve
    ELSE IF elapsed >= to THEN DoTimeout(TimeoutError(elapsed))
    ELSE DoSetTimeout

\* variant: no return after resolve(), the run falls through to setTimeout
OnResolved_NoReturn(v, elapsed, to) ==
    IF Truthy(v)
    THEN [branch |-> "truthy", resolve |-> TRUE, reject |-> FALSE, err |-> NoError,
          arm |-> elapsed < to]
    ELSE IF elapsed >= to THEN DoTimeout(TimeoutError(to))
    ELSE DoSetTimeout

\* variant: the call is fulfilled when the result is falsy
OnResolved_Negated(v, elapsed, to) ==
    IF ~Truthy(v) THEN DoResolve
    ELSE IF elapsed >= to THEN DoTimeout(TimeoutError(to))
    ELSE DoSetTimeout

\* variant: a falsy result before the timeout ends the run without a timer
OnResolved_ForgetsTimer(v, elapsed, to) ==
    IF Truthy(v) THEN DoResolve
    ELSE IF elapsed >= to THEN DoTimeout(TimeoutError(to))
    ELSE [branch |-> "again", resolve |-> FALSE, reject |-> FALSE, err |-> NoError,
          arm |-> FALSE]

\* variant: after a falsy result check() calls itself at once instead of arming
\* a timer; no other callback runs meanwhile, so it spins until the timeout
OnResolved_BusyLoop(v, elapsed, to) ==
    IF Truthy(v) THEN DoResolve
    ELSE DoTimeout(TimeoutError(to))

\* if (resolvedResult) ... const elapsed ... setTimeout(check, interval)
OnResolved(v, elapsed, to) ==
    IF Truthy(v) THEN DoResolve
    ELSE IF elapsed >= to THEN DoTimeout(TimeoutError(to))
    ELSE DoSetTimeout

\* variant: every value condition() returns is awaited, plain ones too
CheckRun_AlwaysAwaits(beh, elapsed, to) ==
    IF beh.how = "throw" THEN DoCatch(beh.err) ELSE DoAwait

\* variant: the timeout is enforced before the returned promise is awaited
CheckRun_TimeoutBeforeAwait(beh, elapsed, to) ==
    IF beh.how = "throw" THEN DoCatch(beh.err)
    ELSE IF IsPromiseLike(beh.value)
    THEN (IF elapsed >= to THEN DoTimeout(TimeoutError(to)) ELSE DoAwait)
    ELSE OnResolved(beh.value, elapsed, to)

\* check() from its start to its first suspension or its end
CheckRun(beh, elapsed, to) ==
    IF beh.how = "throw" THEN DoCatch(beh.err)
    ELSE IF IsPromiseLike(beh.value) THEN DoAwait
    ELSE OnResolved(beh.value, elapsed, to)

\* variant: a rejection of the awaited promise counts as a falsy result
CheckResume_SwallowsRejection(settled, elapsed, to) ==
    IF settled.how = "throw" THEN OnResolved(Bool(FALSE), elapsed, to)
    ELSE OnResolved(settled.value, elapsed, to)

\* check() from the settlement of the awaited promise to its end
CheckResume(settled, elapsed, to) ==
    IF settled.how = "throw" THEN DoCatch(settled.err)
    ELSE OnResolved(settled.value, elapsed, to)

PhaseOf(eff) ==
    CASE eff.branch = "await" -> "CHECKING"
      [] eff.branch = "truthy" -> "SATISFIED"
      [] eff.branch = "timeout" -> "TIMED_OUT"
      [] eff.branch = "catch" -> "FAILED"
      [] eff.branch = "again" -> "WAITING"

\* variant: the delay of the next check is counted from the start of the
\* check that arms it (fixed rate)
NewTimer_FromCheckStart(cb, delayMs, at) ==
    [id |-> armed + 1,
     due |-> (IF cb = "check" /\ awaiting > 0 THEN lastCheck.start
              ELSE IF cb = "check" THEN now ELSE at) + delayMs,
     cb |-> cb]

\* the host's setTimeout(cb, delayMs), called at time `at`
NewTimer(cb, delayMs, at) == [id |-> armed + 1, due |-> at + delayMs, cb |-> cb]

\* what a completed check observed: `b` is what condition() did, or how the
\* promise it returned settled
Observed(b) ==
    IF b.how = "throw" THEN "threw"
    ELSE IF Truthy(b.value) THEN "truthy" ELSE "falsy"

\* condition() really returned a promise
ReturnsPromise(b) == b.how = "return" /\ b.value = PromiseObj

\* resolve() / reject(...) as executed by a run of check() at time `at` on the
\* promise `prom`
SettledBy(eff, prom) ==
    Settle(Settle(prom, IF eff.resolve THEN Fulfilled(Undefined) ELSE prom),
           IF eff.reject THEN Rejected(eff.err) ELSE prom)

PromiseEffects(eff, prom, at) ==
    /\ outcome' = SettledBy(eff, prom)
    /\ settledAt' = IF prom.state = "pending" /\ (eff.resolve \/ eff.reject)
                    THEN at ELSE settledAt

\* setTimeout(check, interval) as executed by a run of check() at time `at`,
\* with `pend` the timers pending when it started
TimerEffects(eff, pend, iv, at) ==
    /\ timers' = IF eff.arm THEN pend \cup {NewTimer("check", iv, at)} ELSE pend
    /\ armed' = IF eff.arm THEN armed + 1 ELSE armed

\* the logical state the run of check() leaves the call in, and the record of
\* what it observed; `entered` are the states entered before it
TraceEffects(eff, b, entered) ==
    /\ phase' = PhaseOf(eff)
    /\ path' = path \o entered \o (IF eff.branch = "await" THEN << >> ELSE <<PhaseOf(eff)>>)
    /\ results' = IF ReturnsPromise(b) THEN results ELSE Append(results, Observed(b))
    /\ condError' = IF b.how = "throw" THEN b.err ELSE condError
    /\ lastCheck' = IF entered = << >>
                    THEN [lastCheck EXCEPT !.via = "await", !.done = now]
                    ELSE [at |-> now', via |-> IF ReturnsPromise(b) THEN "pending" ELSE "sync",
                          start |-> now,
                          thenable |-> b.how = "return" /\ b.value.then = "function",
                          done |-> IF ReturnsPromise(b) THEN NoField ELSE now',
                          before |-> [start |-> lastCheck.start, done |-> lastCheck.done]]

(***************************************************************************)
(* delay and random.                                                       *)
(***************************************************************************)
DelayInputs ==
    {Undefined, Null, Str(3), NaN, Infinity, Half(0)} \cup {Num(n) : n \in -1..MaxArg}
RandomInputs ==
    {Undefined, Str(3), NaN, Infinity, Half(0), Half(1)} \cup {Num(n) : n \in -2..MaxArg}

\* variant: only the type of ms is tested
DelayValidation_OnlyType(x) ==
    IF TypeOf(x) # "number"
    THEN PlainError("Delay must be a non-negative number", "delay")
    ELSE NoError

DelayValidation(x) ==
    IF TypeOf(x) # "number" \/ JsLess(x, Num(0))
    THEN PlainError("Delay must be a non-negative number", "delay")
    ELSE NoError

\* variant: min > max is tested before negativity
RandomValidation_OrderFirst(lo, hi) ==
    IF TypeOf(lo) # "number" \/ TypeOf(hi) # "number"
    THEN PlainError("Both min and max must be numbers", "random")
    ELSE IF JsLess(hi, lo)
    THEN PlainError("min must be less than or equal to max", "random")
    ELSE IF JsLess(lo, Num(0)) \/ JsLess(hi, Num(0))
    THEN PlainError("Both min and max must be non-negative numbers", "random")
    ELSE NoError

RandomValidation(lo, hi) ==
    IF TypeOf(lo) # "number" \/ TypeOf(hi) # "number"
    THEN PlainError("Both min and max must be numbers", "random")
    ELSE IF JsLess(lo, Num(0)) \/ JsLess(hi, Num(0))
    THEN PlainError("Both min and max must be non-negative numbers", "random")
    ELSE IF JsLess(hi, lo)
    THEN PlainError("min must be less than or equal to max", "random")
    ELSE NoError

\* Math.floor(Math.random() * (max - min + 1)) of finite bounds, with
\* Math.random() = k / RandDenom; max - min + 1 is counted in halves
RandomSteps(lo, hi, k) == (k * (Halves(hi) - Halves(lo) + 2)) \div (2 * RandDenom)

\* variant: Math.round instead of Math.floor
RandomMs_Rounded(lo, hi, k) ==
    CASE lo.fin = "NaN" \/ hi.fin = "NaN" -> NaN
      [] lo.fin = "Infinity" -> NaN
      [] hi.fin = "Infinity" -> IF k = 0 THEN NaN ELSE Infinity
      [] OTHER ->
          [lo EXCEPT !.val = lo.val + ((k * (Halves(hi) - Halves(lo) + 2) + RandDenom)
                                          \div (2 * RandDenom))]

\* Math.floor(Math.random() * (max - min + 1)) + min
RandomMs(lo, hi, k) ==
    CASE lo.fin = "NaN" \/ hi.fin = "NaN" -> NaN
      [] lo.fin = "Infinity" -> NaN                          \* Infinity - Infinity
      [] hi.fin = "Infinity" -> IF k = 0 THEN NaN ELSE Infinity   \* 0 * Infinity
      [] OTHER -> [lo EXCEPT !.val = lo.val + RandomSteps(lo, hi, k)]

\* the delays the host may give a timer armed with setTimeout(cb, x): a whole
\* number as it is, a fraction truncated or rounded up, NaN and Infinity
\* replaced by the host's smallest delay
HostDelays(x) ==
    IF ~IsFinite(x) THEN {0, 1}
    ELSE IF x.half = 1 THEN {x.val, x.val + 1}
    ELSE {x.val}

\* variant: the timer is armed with delay 0
DelayBody_ZeroTimer(x) ==
    /\ ms' = x
    /\ calledAt' = now
    /\ IF DelayValidation(x) # NoError
       THEN /\ thrown' = DelayValidation(x)
            /\ phase' = "THREW"
            /\ UNCHANGED <<timers, armed, outcome>>
       ELSE /\ outcome' = Pending
            /\ timers' = timers \cup {NewTimer("resolve", 0, now)}
            /\ armed' = armed + 1
            /\ phase' = "SLEEPING"
            /\ UNCHANGED thrown

\* variant: delay(0) returns a promise that is already fulfilled
DelayBody_SyncWhenZero(x) ==
    /\ ms' = x
    /\ calledAt' = now
    /\ IF DelayValidation(x) # NoError
       THEN /\ thrown' = DelayValidation(x)
            /\ phase' = "THREW"
            /\ UNCHANGED <<timers, armed, outcome>>
       ELSE IF x = Num(0)
       THEN /\ outcome' = Fulfilled(Undefined)
            /\ phase' = "DONE"
            /\ UNCHANGED <<timers, armed, thrown>>
       ELSE /\ outcome' = Pending
            /\ \E d \in HostDelays(x) : timers' = timers \cup {NewTimer("resolve", d, now)}
            /\ armed' = armed + 1
            /\ phase' = "SLEEPING"
            /\ UNCHANGED thrown

\* the body of delay(x), also reached from random
DelayBody(x) ==
    /\ ms' = x
    /\ calledAt' = now
    /\ IF DelayValidation(x) # NoError
       THEN /\ thrown' = DelayValidation(x)
            /\ phase' = "THREW"
            /\ UNCHANGED <<timers, armed, outcome>>
       ELSE /\ outcome' = Pending
            /\ \E d \in HostDelays(x) : timers' = timers \cup {NewTimer("resolve", d, now)}
            /\ armed' = armed + 1
            /\ phase' = "SLEEPING"
            /\ UNCHANGED thrown

(***************************************************************************)
(* Programs that poll a variable of their own which a timer of their own   *)
(* changes.  `every` is the delay given to setInterval (repeat) or to      *)
(* setTimeout; the condition function is () => counter >= target.          *)
(***************************************************************************)
NoProgram ==
    [name |-> "none", interval |-> 0, timeout |-> 0, every |-> 0, repeat |-> FALSE,
     target |-> 0]

\* setInterval(() => { counter++ }, 20);
\* until(() => counter >= 5, { interval: 10, timeout: 500 })
CounterProgram ==
    [name |-> "counter", interval |-> 10, timeout |-> 500, every |-> 20, repeat |-> TRUE,
     target |-> 5]

\* setTimeout(() => { ready = true }, 50);
\* until(() => ready, { interval: 0, timeout: 1000 })
ReadyProgram ==
    [name |-> "ready", interval |-> 0, timeout |-> 1000, every |-> 50, repeat |-> FALSE,
     target |-> 1]

NoDriver == [due |-> NoField]

\* the closure of another until call: its constants, its promise, the number
\* of its condition() invocations and of its setTimeout calls, and what its
\* last check observed
NoPeer ==
    [interval |-> NoField, timeout |-> NoField, startTime |-> NoField, calls |-> 0,
     armed |-> 0, outcome |-> NoPromise, settledAt |-> NoField, last |-> "none",
     err |-> NoError]

\* what the program's condition function does when invoked now
CounterCondition ==
    [how |-> "return", value |-> Bool(counter >= scen.target), err |-> NoError, took |-> 0]

(***************************************************************************)
(* The state before any call.                                              *)
(***************************************************************************)
NoCallYet ==
    /\ now = 0
    /\ op = "none"
    /\ condition = Undefined
    /\ options = [interval |-> Undefined, timeout |-> Undefined]
    /\ interval = NoField
    /\ timeout = NoField
    /\ startTime = NoField
    /\ phase = "IDLE"
    /\ path = << >>
    /\ timers = {}
    /\ armed = 0
    /\ fired = 0
    /\ inflight = 0
    /\ awaiting = 0
    /\ calls = 0
    /\ results = << >>
    /\ condError = NoError
    /\ lastCheck = [at |-> NoField, via |-> "none", start |-> NoField, done |-> NoField,
                    thenable |-> FALSE,
                    before |-> [start |-> NoField, done |-> NoField]]
    /\ outcome = NoPromise
    /\ settledAt = NoField
    /\ thrown = NoError
    /\ ms = Undefined
    /\ calledAt = NoField
    /\ rmin = Undefined
    /\ rmax = Undefined
    /\ made = NothingMade
    /\ burst = 0

Init ==
    /\ NoCallYet
    /\ counter = 0
    /\ driver = NoDriver
    /\ scen = NoProgram
    /\ peer = NoPeer

(***************************************************************************)
(* until(condition, options): validation, then the first run of check().   *)
(***************************************************************************)
\* until(cond, opts), with beh what the first condition() does
\* variant: the first check is handed to a zero timer instead of being run
\* inside the call
UntilBody_FirstCheckDeferred(cond, opts, beh) ==
    /\ op' = "until"
    /\ condition' = cond
    /\ options' = opts
    /\ UNCHANGED <<fired, ms, calledAt, rmin, rmax>>
    /\ IF UntilValidation(cond, opts) # NoError
       THEN /\ thrown' = UntilValidation(cond, opts)
            /\ phase' = "THREW"
            /\ UNCHANGED <<now, interval, timeout, startTime, path, timers, armed,
                           inflight, awaiting, calls, results, condError, lastCheck,
                           outcome, settledAt>>
       ELSE /\ interval' = ResolvedInterval(opts).val
            /\ timeout' = ResolvedTimeout(opts).val
            /\ startTime' = now
            /\ outcome' = Pending
            /\ timers' = timers \cup {NewTimer("check", 0, now)}
            /\ armed' = armed + 1
            /\ phase' = "WAITING"
            /\ path' = path \o <<"WAITING">>
            /\ UNCHANGED <<now, inflight, awaiting, calls, results, condError, lastCheck,
                           settledAt, thrown>>

UntilBody(cond, opts, beh) ==
    /\ op' = "until"
    /\ condition' = cond
    /\ options' = opts
    /\ UNCHANGED <<fired, ms, calledAt, rmin, rmax>>
    /\ IF UntilValidation(cond, opts) # NoError
       THEN /\ thrown' = UntilValidation(cond, opts)
            /\ phase' = "THREW"
            /\ UNCHANGED <<now, interval, timeout, startTime, path, timers, armed,
                           inflight, awaiting, calls, results, condError, lastCheck,
                           outcome, settledAt>>
       ELSE /\ interval' = ResolvedInterval(opts).val
            /\ timeout' = ResolvedTimeout(opts).val
            /\ startTime' = now
            /\ now' = now + beh.took
            /\ calls' = 1
            /\ inflight' = IF ReturnsPromise(beh) THEN inflight + 1 ELSE inflight
            /\ LET eff == CheckRun(beh, now' - startTime', timeout')
               IN  /\ PromiseEffects(eff, Pending, now')
                   /\ TimerEffects(eff, timers, interval', now')
                   /\ TraceEffects(eff, beh, <<"CHECKING">>)
                   /\ awaiting' = IF eff.branch = "await" THEN awaiting + 1 ELSE awaiting
            /\ UNCHANGED thrown

Until ==
    /\ op = "none"
    /\ \E cond \in ConditionInputs, opts \in OptionsInputs, beh \in CondBehaviours :
        /\ now + beh.took <= MaxTime
        /\ UntilBody(cond, opts, beh)
    /\ UNCHANGED callerVars

(***************************************************************************)
(* A timer armed by check() fires: the next run of check().                *)
(***************************************************************************)
\* variant: every run of check() reads interval and timeout from the options
CheckBody_ReadsOptions(t, beh) ==
    /\ t.cb = "check"
    /\ t.due <= now
    /\ fired' = fired + 1
    /\ now' = now + beh.took
    /\ calls' = calls + 1
    /\ inflight' = IF ReturnsPromise(beh) THEN inflight + 1 ELSE inflight
    /\ LET eff == CheckRun(beh, now' - startTime, ResolvedTimeout(options).val)
       IN  /\ PromiseEffects(eff, outcome, now')
           /\ TimerEffects(eff, timers \ {t}, ResolvedInterval(options).val, now')
           /\ TraceEffects(eff, beh, <<"CHECKING">>)
           /\ awaiting' = IF eff.branch = "await" THEN awaiting + 1 ELSE awaiting
    /\ UNCHANGED <<op, condition, options, interval, timeout, startTime, thrown,
                   ms, calledAt, rmin, rmax>>

\* variant: every run of check() takes a new start timestamp
CheckBody_RestartsClock(t, beh) ==
    /\ t.cb = "check"
    /\ t.due <= now
    /\ fired' = fired + 1
    /\ now' = now + beh.took
    /\ calls' = calls + 1
    /\ startTime' = now
    /\ inflight' = IF ReturnsPromise(beh) THEN inflight + 1 ELSE inflight
    /\ LET eff == CheckRun(beh, now' - startTime', timeout)
       IN  /\ PromiseEffects(eff, outcome, now')
           /\ TimerEffects(eff, timers \ {t}, interval, now')
           /\ TraceEffects(eff, beh, <<"CHECKING">>)
           /\ awaiting' = IF eff.branch = "await" THEN awaiting + 1 ELSE awaiting
    /\ UNCHANGED <<op, condition, options, interval, timeout, thrown,
                   ms, calledAt, rmin, rmax>>

\* the callback of timer t, with beh what condition() does in it
CheckBody(t, beh) ==
    /\ t.cb = "check"
    /\ t.due <= now
    /\ fired' = fired + 1
    /\ now' = now + beh.took
    /\ calls' = calls + 1
    /\ inflight' = IF ReturnsPromise(beh) THEN inflight + 1 ELSE inflight
    /\ LET eff == CheckRun(beh, now' - startTime, timeout)
       IN  /\ PromiseEffects(eff, outcome, now')
           /\ TimerEffects(eff, timers \ {t}, interval, now')
           /\ TraceEffects(eff, beh, <<"CHECKING">>)
           /\ awaiting' = IF eff.branch = "await" THEN awaiting + 1 ELSE awaiting
    /\ UNCHANGED <<op, condition, options, interval, timeout, startTime, thrown,
                   ms, calledAt, rmin, rmax>>

CheckTimerFires ==
    /\ calls < MaxChecks
    /\ \E t \in timers, beh \in CondBehaviours :
        /\ now + beh.took <= MaxTime \/ beh.took = 0
        /\ CheckBody(t, beh)
    /\ UNCHANGED callerVars

(***************************************************************************)
(* The promise condition() returned settles: check() resumes after await.  *)
(***************************************************************************)
ConditionSettles ==
    /\ inflight > 0
    /\ inflight' = inflight - 1
    /\ IF awaiting > 0
       THEN /\ awaiting' = awaiting - 1
            /\ \E settled \in Settlements :
                LET eff == CheckResume(settled, now - startTime, timeout)
                IN  /\ PromiseEffects(eff, outcome, now)
                    /\ TimerEffects(eff, timers, interval, now)
                    /\ TraceEffects(eff, settled, << >>)
       ELSE UNCHANGED <<awaiting, outcome, settledAt, timers, armed, phase, path, results,
                        condError, lastCheck>>
    /\ UNCHANGED <<now, op, condition, options, interval, timeout, startTime, fired,
                   calls, thrown, ms, calledAt, rmin, rmax>>
    /\ UNCHANGED callerVars

(***************************************************************************)
(* delay(ms) and random(min, max).                                         *)
(***************************************************************************)
Delay ==
    /\ op = "none"
    /\ \E x \in DelayInputs :
        /\ op' = "delay"
        /\ DelayBody(x)
    /\ UNCHANGED <<now, fired, settledAt, rmin, rmax>>
    /\ UNCHANGED untilVars
    /\ UNCHANGED callerVars

Random ==
    /\ op = "none"
    /\ \E lo \in RandomInputs, hi \in RandomInputs, k \in 0..(RandDenom - 1) :
        /\ op' = "random"
        /\ rmin' = lo
        /\ rmax' = hi
        /\ IF RandomValidation(lo, hi) # NoError
           THEN /\ thrown' = RandomValidation(lo, hi)
                /\ phase' = "THREW"
                /\ UNCHANGED <<timers, armed, outcome, ms, calledAt>>
           ELSE DelayBody(RandomMs(lo, hi, k))
    /\ UNCHANGED <<now, fired, settledAt>>
    /\ UNCHANGED untilVars
    /\ UNCHANGED callerVars

\* setTimeout(resolve, ms) fires
DelayTimerFires ==
    /\ \E t \in timers :
        /\ t.cb = "resolve"
        /\ t.due <= now
        /\ timers' = timers \ {t}
    /\ fired' = fired + 1
    /\ outcome' = Settle(outcome, Fulfilled(Undefined))
    /\ settledAt' = IF outcome.state = "pending" THEN now ELSE settledAt
    /\ phase' = "DONE"
    /\ UNCHANGED <<now, op, armed, thrown, ms, calledAt, rmin, rmax>>
    /\ UNCHANGED untilVars
    /\ UNCHANGED callerVars

(***************************************************************************)
(* The wall clock advances: by one unit, to the moment the next timer is   *)
(* due, or to the moment the timeout is reached.                           *)
(***************************************************************************)
TickSteps ==
    (IF now < MaxTime THEN {1} ELSE {})
        \cup {t.due - now : t \in {u \in timers : u.due > now}}
        \cup (IF startTime # NoField /\ startTime + timeout > now
              THEN {startTime + timeout - now} ELSE {})

Tick ==
    /\ \E d \in TickSteps : now' = now + d
    /\ UNCHANGED <<op, phase, timers, armed, fired, outcome, settledAt, thrown, ms,
                   calledAt, rmin, rmax>>
    /\ UNCHANGED untilVars
    /\ UNCHANGED callerVars

(***************************************************************************)
(* A caller constructs one of the exported error classes.                  *)
(***************************************************************************)
MessageInputs == {NoMessage, NullMessage, Message("Custom timeout message"), Message("")}

NewTimeoutError ==
    /\ op = "none"
    /\ op' = "TimeoutError"
    /\ \E t \in -1..MaxTimeoutArg, message \in MessageInputs :
        made' = [cls |-> "TimeoutError", timeout |-> t, message |-> message,
                 error |-> TimeoutErrorMsg(t, message, "caller")]
    /\ UNCHANGED <<now, phase, timers, armed, fired, outcome, settledAt, thrown, ms,
                   calledAt, rmin, rmax, counter, driver, scen, peer, burst>>
    /\ UNCHANGED untilVars

NewValidationError ==
    /\ op = "none"
    /\ op' = "ValidationError"
    /\ \E message \in {m \in MessageInputs : m.typ = "string"} :
        made' = [cls |-> "ValidationError", timeout |-> NoField, message |-> message,
                 error |-> ValidationError(message.text, "caller")]
    /\ UNCHANGED <<now, phase, timers, armed, fired, outcome, settledAt, thrown, ms,
                   calledAt, rmin, rmax, counter, driver, scen, peer, burst>>
    /\ UNCHANGED untilVars

Next ==
    \/ Until
    \/ CheckTimerFires
    \/ ConditionSettles
    \/ Delay
    \/ Random
    \/ DelayTimerFires
    \/ NewTimeoutError
    \/ NewValidationError
    \/ Tick

Spec == Init /\ [][Next]_vars

(***************************************************************************)
(* A polling program: it registers its timer and calls until in one        *)
(* synchronous run.  The host runs a timer callback when the timer is due  *)
(* or at most MaxLate later; the clock advances one unit at a time.        *)
(***************************************************************************)
InitPolling ==
    /\ NoCallYet
    /\ counter = 0
    /\ peer = NoPeer
    /\ \E program \in {CounterProgram, ReadyProgram} :
        /\ scen = program
        /\ driver = [due |-> now + program.every]

PollUntil ==
    /\ op = "none"
    /\ UntilBody(Fn, [interval |-> Num(scen.interval), timeout |-> Num(scen.timeout)],
                 CounterCondition)
    /\ UNCHANGED callerVars

\* a timer armed by check() fires; the program's `finally` after its await
\* clears the setInterval timer once the returned promise has settled
PollTimerFires ==
    /\ calls < MaxPollChecks
    /\ \E t \in timers : CheckBody(t, CounterCondition)
    /\ driver' = IF scen.repeat /\ outcome'.state # "pending" THEN NoDriver ELSE driver
    /\ UNCHANGED <<counter, scen, peer, made, burst>>

\* the program's own timer fires: counter++ (ready = true); a setInterval
\* timer is due again `every` after it was due or after it ran
DriverFires ==
    /\ op = "until"
    /\ driver # NoDriver
    /\ driver.due <= now
    /\ counter' = counter + 1
    /\ IF scen.repeat
       THEN \E from \in {driver.due, now} : driver' = [due |-> from + scen.every]
       ELSE driver' = NoDriver
    /\ UNCHANGED <<now, op, phase, timers, armed, fired, outcome, settledAt, thrown, ms,
                   calledAt, rmin, rmax, scen, peer, made, burst>>
    /\ UNCHANGED untilVars

PendingDues ==
    {t.due : t \in timers} \cup (IF driver # NoDriver THEN {driver.due} ELSE {})

PollTick ==
    /\ op = "until"
    /\ PendingDues # {}
    /\ \A due \in PendingDues : now + 1 <= due + MaxLate
    /\ now' = now + 1
    /\ UNCHANGED <<op, phase, timers, armed, fired, outcome, settledAt, thrown, ms,
                   calledAt, rmin, rmax>>
    /\ UNCHANGED untilVars
    /\ UNCHANGED callerVars

NextPolling ==
    \/ PollUntil
    \/ PollTimerFires
    \/ DriverFires
    \/ PollTick

\* the host's event loop runs every callback that is due, and time passes
Polling ==
    /\ InitPolling
    /\ [][NextPolling]_vars
    /\ WF_vars(PollUntil)
    /\ WF_vars(PollTimerFires)
    /\ WF_vars(DriverFires)
    /\ WF_vars(PollTick)


(***************************************************************************)
(* A caller that has armed a timer of its own (setTimeout(cb, e), cb       *)
(* counting in counter) and later calls delay.  The host runs due timers   *)
(* in the order of their due times, and timers due at the same time in the *)
(* order in which they were armed; the caller's timer was armed first.     *)
(***************************************************************************)
InitYielding ==
    /\ NoCallYet
    /\ counter = 0
    /\ scen = NoProgram
    /\ peer = NoPeer
    /\ \E e \in 0..MaxArg : driver = [due |-> now + e]

YieldTimerFires ==
    /\ \A t \in timers : driver = NoDriver \/ driver.due > t.due
    /\ DelayTimerFires

CallerTimerFires ==
    /\ driver # NoDriver
    /\ driver.due <= now
    /\ \A t \in timers : driver.due <= t.due
    /\ counter' = counter + 1
    /\ driver' = NoDriver
    /\ UNCHANGED <<now, op, phase, timers, armed, fired, outcome, settledAt, thrown, ms,
                   calledAt, rmin, rmax, scen, peer, made, burst>>
    /\ UNCHANGED untilVars

NextYielding ==
    \/ Delay
    \/ YieldTimerFires
    \/ CallerTimerFires
    \/ Tick

Yielding == InitYielding /\ [][NextYielding]_vars

(***************************************************************************)
(* Two until calls in one process.  The host's clock and timer queue are   *)
(* shared; everything else a call uses is a constant or a function of its  *)
(* own closure (until.ts:55-56, 66-69).  The first call is the one of the  *)
(* variables above, the second is the record peer; both are given a        *)
(* function and valid options, and conditions that answer synchronously.   *)
(***************************************************************************)
ConcurrentOptions == [interval : {Num(1), Num(MaxArg)}, timeout : {Num(MaxTimeoutArg)}]

SyncBehaviours ==
    {b \in CondBehaviours :
        /\ b.took = 0
        /\ b.how = "throw" => b.err.cls = "Error"
        /\ b.how = "return" => b.value.typ = "boolean"}

\* variant: startTime is a variable of the module, assigned by every call
CapturedStartTime_ModuleLevel(own, latest) == latest

\* the startTime a call's check() reads after a later call has assigned its
\* own: `const startTime` belongs to the executor of the call's own promise
CapturedStartTime(own, latest) == own

\* one run of the peer's check() at time `at`
PeerCheck(p, beh, at) ==
    LET eff == CheckRun(beh, at - p.startTime, p.timeout)
    IN  [p EXCEPT !.calls = @ + 1,
                  !.armed = IF eff.arm THEN @ + 1 ELSE @,
                  !.outcome = SettledBy(eff, @),
                  !.settledAt = IF eff.resolve \/ eff.reject THEN at ELSE @,
                  !.last = Observed(beh),
                  !.err = IF beh.how = "throw" THEN beh.err ELSE @]

\* the timer the peer's check() armed at time `at`, if it armed one
PeerTimers(before, after, at) ==
    IF after.armed > before.armed
    THEN {[id |-> after.armed, due |-> at + after.interval, cb |-> "peerCheck"]}
    ELSE {}

ConcUntil ==
    /\ op = "none"
    /\ \E opts \in ConcurrentOptions, beh \in SyncBehaviours : UntilBody(Fn, opts, beh)
    /\ peer' = IF peer = NoPeer THEN peer
               ELSE [peer EXCEPT !.startTime = CapturedStartTime(@, now)]
    /\ UNCHANGED <<counter, driver, scen, made, burst>>

ConcCheckFires ==
    /\ calls < MaxChecks
    /\ \E t \in timers, beh \in SyncBehaviours : CheckBody(t, beh)
    /\ UNCHANGED callerVars

PeerUntil ==
    /\ peer = NoPeer
    /\ \E opts \in ConcurrentOptions, beh \in SyncBehaviours :
        LET created == [NoPeer EXCEPT !.interval = ResolvedInterval(opts).val,
                                      !.timeout = ResolvedTimeout(opts).val,
                                      !.startTime = now,
                                      !.outcome = Pending]
            checked == PeerCheck(created, beh, now)
        IN  /\ peer' = checked
            /\ timers' = timers \cup PeerTimers(created, checked, now)
    /\ startTime' = IF startTime = NoField THEN startTime
                    ELSE CapturedStartTime(startTime, now)
    /\ UNCHANGED <<now, op, condition, options, interval, timeout, phase, path, armed,
                   fired, inflight, awaiting, calls, results, condError, lastCheck,
                   outcome, settledAt, thrown, ms, calledAt, rmin, rmax, counter,
                   driver, scen, made, burst>>

PeerCheckFires ==
    /\ peer.calls < MaxChecks
    /\ \E t \in timers, beh \in SyncBehaviours :
        /\ t.cb = "peerCheck"
        /\ t.due <= now
        /\ LET checked == PeerCheck(peer, beh, now)
           IN  /\ peer' = checked
               /\ timers' = (timers \ {t}) \cup PeerTimers(peer, checked, now)
    /\ UNCHANGED <<now, op, condition, options, interval, timeout, startTime, phase,
                   path, armed, fired, inflight, awaiting, calls, results, condError,
                   lastCheck, outcome, settledAt, thrown, ms, calledAt, rmin, rmax,
                   counter, driver, scen, made, burst>>

NextConcurrent ==
    \/ ConcUntil
    \/ ConcCheckFires
    \/ PeerUntil
    \/ PeerCheckFires
    \/ Tick

Concurrent == Init /\ [][NextConcurrent]_vars

(***************************************************************************)
(* A caller that keeps the options object and assigns to its fields while   *)
(* the call is pending.                                                    *)
(***************************************************************************)
HeldOptions == [interval : {Num(1), Num(MaxArg)}, timeout : {Num(1), Num(MaxTimeoutArg)}]

HeldUntil ==
    /\ op = "none"
    /\ \E opts \in HeldOptions, beh \in CondBehaviours :
        /\ now + beh.took <= MaxTime
        /\ UntilBody(Fn, opts, beh)
    /\ UNCHANGED callerVars

\* the caller's own code: options.interval = ...; options.timeout = ...
OptionsChanged ==
    /\ op = "until"
    /\ outcome.state = "pending"
    /\ \E opts \in HeldOptions :
        /\ opts # options
        /\ options' = opts
    /\ UNCHANGED <<now, op, condition, interval, timeout, startTime, phase, path, timers,
                   armed, fired, inflight, awaiting, calls, results, condError, lastCheck,
                   outcome, settledAt, thrown, ms, calledAt, rmin, rmax>>
    /\ UNCHANGED callerVars

NextMutating ==
    \/ HeldUntil
    \/ CheckTimerFires
    \/ ConditionSettles
    \/ OptionsChanged
    \/ Tick

Mutating == Init /\ [][NextMutating]_vars

(***************************************************************************)
(* One until call run to its end by a fair host: every due timer fires,    *)
(* every promise settles, the clock advances; at most MaxBurst checks can  *)
(* start at one clock value.                                               *)
(***************************************************************************)
TermOptions ==
    [interval : {Num(n) : n \in 0..MaxArg}, timeout : {Num(n) : n \in 0..MaxTimeoutArg}]

TermUntil ==
    /\ op = "none"
    /\ \E opts \in TermOptions, beh \in CondBehaviours :
        /\ now + beh.took <= MaxTime
        /\ UntilBody(Fn, opts, beh)
        /\ burst' = IF beh.took = 0 THEN 1 ELSE 0
    /\ UNCHANGED <<counter, driver, scen, peer, made>>

TermCheckFires ==
    /\ burst < MaxBurst
    /\ \E t \in timers, beh \in CondBehaviours :
        /\ now + beh.took <= MaxTime \/ beh.took = 0
        /\ CheckBody(t, beh)
        /\ burst' = IF beh.took = 0 THEN burst + 1 ELSE 0
    /\ UNCHANGED <<counter, driver, scen, peer, made>>

TermTick ==
    /\ \E d \in TickSteps : now' = now + d
    /\ burst' = 0
    /\ UNCHANGED <<op, phase, timers, armed, fired, outcome, settledAt, thrown, ms,
                   calledAt, rmin, rmax>>
    /\ UNCHANGED untilVars
    /\ UNCHANGED <<counter, driver, scen, peer, made>>

NextTerminating ==
    \/ TermUntil
    \/ TermCheckFires
    \/ ConditionSettles
    \/ TermTick

Terminating ==
    /\ Init
    /\ [][NextTerminating]_vars
    /\ WF_vars(TermCheckFires)
    /\ WF_vars(ConditionSettles)
    /\ WF_vars(TermTick)

(***************************************************************************)
(* One until call with a synchronous condition that is never true, run by  *)
(* a host whose timers fire exactly when they are due.                     *)
(***************************************************************************)
PunctualOptions ==
    [interval : {Num(n) : n \in 1..MaxArg}, timeout : {Num(n) : n \in 0..MaxTimeoutArg}]

\* () => false, also one that takes time on the wall clock
NeverTrueBehaviours ==
    {b \in CondBehaviours : b.how = "return" /\ ~ReturnsPromise(b) /\ ~Truthy(b.value)}

PunctualUntil ==
    /\ op = "none"
    /\ \E opts \in PunctualOptions, beh \in NeverTrueBehaviours :
        /\ now + beh.took <= MaxTime
        /\ UntilBody(Fn, opts, beh)
    /\ UNCHANGED callerVars

PunctualCheckFires ==
    /\ \E t \in timers, beh \in NeverTrueBehaviours :
        /\ t.due = now
        /\ CheckBody(t, beh)
    /\ UNCHANGED callerVars

\* the clock never passes the due time of a pending timer
PunctualTick ==
    /\ \E d \in TickSteps :
        /\ \A t \in timers : now + d <= t.due
        /\ now' = now + d
    /\ UNCHANGED <<op, phase, timers, armed, fired, outcome, settledAt, thrown, ms,
                   calledAt, rmin, rmax>>
    /\ UNCHANGED untilVars
    /\ UNCHANGED callerVars

NextPunctual ==
    \/ PunctualUntil
    \/ PunctualCheckFires
    \/ PunctualTick

Punctual == Init /\ [][NextPunctual]_vars

(***************************************************************************)
(* Properties of until.                                                    *)
(***************************************************************************)
IsUntil == op = "until" /\ phase # "THREW"
LastResult == results[Len(results)]
Elapsed == now - startTime
Settled(p) == p.state \in {"fulfilled", "rejected"}
IsOwnTimeoutError(e) == e.cls = "TimeoutError" /\ e.ref = "until"

\* C1 as stated: the call fails with a TimeoutError when the elapsed time
\* reaches the timeout before the condition was true, and never fulfills once
\* the elapsed time has reached the timeout.
C1_NeverFulfillsAfterTimeout ==
    (IsUntil /\ outcome.state = "fulfilled") => settledAt - startTime < timeout

\* C1 as amended: the call settles only when a check completes; a check that
\* reports truthy fulfills it (also when the elapsed time has reached the
\* timeout by then), a check that reports falsy with elapsed >= timeout fails
\* it with a TimeoutError, and a check that reports falsy with elapsed <
\* timeout leaves it pending.
C1_SettlesByCheckResult ==
    [][(op' = "until" /\ phase' # "THREW") =>
          /\ (Settled(outcome') /\ ~Settled(outcome)) => Len(results') = Len(results) + 1
          /\ Len(results') = Len(results) + 1 =>
                LET r == results'[Len(results')]
                    elapsed == now' - startTime'
                IN  /\ r = "truthy" => outcome' = Fulfilled(Undefined)
                    /\ (r = "falsy" /\ elapsed >= timeout') =>
                          outcome'.state = "rejected" /\ IsOwnTimeoutError(outcome'.err)
                    /\ (r = "falsy" /\ elapsed < timeout') => outcome'.state = "pending"
      ]_vars

\* C1 witness: a later check reported truthy when the timeout had already
\* been reached, and the call fulfilled.
C1_Witness ==
    /\ IsUntil
    /\ outcome.state = "fulfilled"
    /\ Len(results) >= 2
    /\ timeout > 0
    /\ settledAt - startTime > timeout

\* C2: when condition() throws or its promise rejects, on the first or a later
\* check, the call is rejected with that very error object.
C2_ConditionErrorPropagated ==
    (IsUntil /\ results # << >> /\ LastResult = "threw") =>
        /\ outcome = Rejected(condError)
        /\ outcome.err \in PredErrors
        /\ outcome.err.ref = "condition"
        /\ phase = "FAILED"

\* C2 witness: the promise returned by a later check rejected with an error
\* that is itself a TimeoutError made by the caller.
C2_Witness ==
    /\ IsUntil
    /\ Len(results) >= 2
    /\ LastResult = "threw"
    /\ fired >= 1
    /\ outcome.state = "rejected"
    /\ outcome.err.cls = "TimeoutError"

\* C3: at most one timer is pending and at most one condition() promise is in
\* flight, never both; a new condition() invocation starts only when nothing is
\* in flight and the only pending timer is the one whose firing starts it.
C3_OneTimerOneEvaluation ==
    /\ [](Cardinality(timers) <= 1 /\ inflight <= 1 /\ Cardinality(timers) + inflight <= 1)
    /\ [][calls' = calls + 1 =>
            /\ inflight = 0
            /\ awaiting = 0
            /\ (calls = 0 => timers = {})
            /\ (calls > 0 => Cardinality(timers) = 1 /\ fired' = fired + 1)
         ]_vars

\* C3 witness: a later check is in flight, started by a timer, no timer pending.
C3_Witness ==
    /\ IsUntil
    /\ inflight = 1
    /\ calls >= 2
    /\ fired >= 1
    /\ timers = {}


\* C4: when the first check is truthy the call fulfills with no value, having
\* invoked condition() exactly once and armed no timer, whatever the interval
\* and the timeout (timeout 0 included).
C4_TruthyOnFirstCheck ==
    (IsUntil /\ results # << >> /\ results[1] = "truthy") =>
        /\ outcome = Fulfilled(Undefined)
        /\ phase = "SATISFIED"
        /\ calls = 1
        /\ armed = 0
        /\ fired = 0
        /\ timers = {}

\* C4 witness: timeout 0, first check truthy.
C4_Witness ==
    /\ IsUntil
    /\ timeout = 0
    /\ results = <<"truthy">>
    /\ outcome.state = "fulfilled"

\* C5: with timeout 0 condition() is invoked exactly once and no timer is ever
\* armed; if that check is falsy the call fails with a TimeoutError whose
\* timeout field is 0.
C5_ZeroTimeout ==
    (IsUntil /\ timeout = 0) =>
        /\ calls = 1
        /\ armed = 0
        /\ timers = {}
        /\ (results # << >> /\ results[1] = "falsy") =>
              /\ outcome.state = "rejected"
              /\ IsOwnTimeoutError(outcome.err)
              /\ outcome.err.timeout = 0

\* C5 witness: timeout 0, the one check was falsy, the call timed out.
C5_Witness ==
    /\ IsUntil
    /\ timeout = 0
    /\ results = <<"falsy">>
    /\ outcome.state = "rejected"
    /\ interval > 0

\* C6: a call that fails by timeout is rejected with a TimeoutError whose
\* timeout field is the resolved timeout (not the elapsed time) and whose
\* message is "Condition not met within {timeout}ms timeout".
C6_TimeoutErrorCarriesTimeout ==
    (IsUntil /\ outcome.state = "rejected" /\ LastResult = "falsy") =>
        /\ outcome.err.cls = "TimeoutError"
        /\ outcome.err.name = "TimeoutError"
        /\ outcome.err.timeout = timeout
        /\ outcome.err.message = "Condition not met within " \o NumToString(timeout) \o "ms timeout"
        /\ (timeout = 0 => outcome.err.message = "Condition not met within 0ms timeout")
        /\ (timeout = DEFAULT_TIMEOUT =>
               outcome.err.message = "Condition not met within 30000ms timeout")

\* C6 witness: the call timed out at an elapsed time larger than the timeout.
C6_Witness ==
    /\ IsUntil
    /\ outcome.state = "rejected"
    /\ LastResult = "falsy"
    /\ timeout > 0
    /\ settledAt - startTime > timeout

\* C7: every validation failure of delay, random and until is a
\* ValidationError.
C7_ValidationFailuresAreValidationErrors ==
    thrown # NoError => (thrown.cls = "ValidationError" /\ thrown.name = "ValidationError")

\* what C8 calls a value that is not a non-negative number
IsNonNegativeNumber(v) == v.typ = "number" /\ v.val >= 0
GivenOrDefault(v, d) == IF v \in {Undefined, Null} THEN Num(d) ELSE v

\* C8: until throws synchronously, before condition() is invoked, before a
\* timer is armed and before a promise is created, exactly when the condition
\* is not callable or the resolved interval or timeout is not a non-negative
\* number; the error reported is the first in the order condition, interval,
\* timeout.
C8_ValidatesFirstInOrder ==
    op = "until" =>
        LET badCondition == condition.typ # "function"
            badInterval ==
                ~IsNonNegativeNumber(GivenOrDefault(options.interval, DEFAULT_INTERVAL))
            badTimeout ==
                ~IsNonNegativeNumber(GivenOrDefault(options.timeout, DEFAULT_TIMEOUT))
        IN  /\ (badCondition \/ badInterval \/ badTimeout) <=> thrown # NoError
            /\ thrown # NoError =>
                  /\ calls = 0
                  /\ armed = 0
                  /\ timers = {}
                  /\ inflight = 0
                  /\ outcome = NoPromise
                  /\ thrown.message =
                        IF badCondition THEN "Condition must be a function"
                        ELSE IF badInterval THEN "Interval must be a non-negative number"
                        ELSE "Timeout must be a non-negative number"
            /\ thrown = NoError => (outcome # NoPromise /\ calls >= 1)

\* C8 witness: interval and timeout are both invalid, the interval is reported.
C8_Witness ==
    /\ op = "until"
    /\ condition = Fn
    /\ options.interval = Num(-1)
    /\ options.timeout = Str(4)
    /\ thrown.message = "Interval must be a non-negative number"

Transitions ==
    {<<"CHECKING", "WAITING">>, <<"WAITING", "CHECKING">>, <<"CHECKING", "SATISFIED">>,
     <<"CHECKING", "TIMED_OUT">>, <<"CHECKING", "FAILED">>}

\* C9: the call moves CHECKING -> WAITING -> CHECKING ... -> terminal and ends
\* only as SATISFIED (condition true), FAILED (condition error) or TIMED_OUT;
\* WAITING is entered only from a check that was falsy with elapsed < timeout,
\* a terminal state only from CHECKING.
C9_StateMachine ==
    /\ [](IsUntil =>
            /\ path # << >>
            /\ path[1] = "CHECKING"
            /\ phase = path[Len(path)]
            /\ \A i \in 1..(Len(path) - 1) : <<path[i], path[i + 1]>> \in Transitions
            /\ outcome.state = "fulfilled" <=> phase = "SATISFIED"
            /\ outcome.state = "rejected" <=> phase \in {"TIMED_OUT", "FAILED"}
            /\ outcome.state = "pending" <=> phase \in {"CHECKING", "WAITING"}
            /\ phase = "SATISFIED" => LastResult = "truthy"
            /\ phase = "FAILED" => (LastResult = "threw" /\ outcome.err = condError)
            /\ phase = "TIMED_OUT" => (LastResult = "falsy" /\ IsOwnTimeoutError(outcome.err))
            /\ phase = "WAITING" => (LastResult = "falsy" /\ Cardinality(timers) = 1)
            /\ phase = "CHECKING" => inflight = 1)
    /\ [][(op' = "until" /\ phase' = "WAITING" /\ Len(path') > Len(path)) =>
            /\ Len(results') = Len(results) + 1
            /\ results'[Len(results')] = "falsy"
            /\ now' - startTime' < timeout'
         ]_vars

\* C9 witness: two falsy checks, then a third one that timed out.
C9_Witness ==
    /\ IsUntil
    /\ path = <<"CHECKING", "WAITING", "CHECKING", "WAITING", "CHECKING", "TIMED_OUT">>

\* C10: while a promise returned by condition() is unsettled the call stays
\* pending, however far the clock is past the timeout: no TimeoutError, no
\* settlement and no timer until that promise settles.
C10_NoTimeoutWhileInFlight ==
    /\ [](IsUntil /\ inflight > 0 =>
            /\ outcome.state = "pending"
            /\ phase = "CHECKING"
            /\ awaiting = inflight
            /\ timers = {})
    /\ [][(inflight > 0 /\ inflight' >= inflight) =>
            (outcome' = outcome /\ phase' = phase /\ timers' = timers /\ calls' = calls)
         ]_vars

\* C10 witness: a check is in flight and the clock is past the timeout.
C10_Witness ==
    /\ IsUntil
    /\ inflight = 1
    /\ timeout > 0
    /\ Elapsed > timeout
    /\ outcome.state = "pending"


NeverTrue == \A i \in 1..Len(results) : results[i] = "falsy"

\* C11 as stated: for a condition that is never true, with timeout T and
\* interval I, the call fails with a TimeoutError carrying T after at least
\* one invocation, and the number of invocations is within 1 of T / I.
C11_ChecksWithinOneOfRatio ==
    (IsUntil /\ NeverTrue /\ interval > 0 /\ outcome.state = "rejected") =>
        /\ outcome.err.timeout = timeout
        /\ calls >= 1
        /\ calls * interval - timeout <= interval
        /\ timeout - calls * interval <= interval

\* C11 as amended: for a condition that is never true, with timeout T and
\* interval I > 0, the call can fail only with a TimeoutError carrying T, after
\* at least one invocation and at most ceil(T / I) + 1 invocations, that is
\* (n - 2) * I < T for the number n of invocations; n can be smaller than
\* T / I - 1 when timers fire late or a check takes time.
C11_ChecksBoundedByRatio ==
    (IsUntil /\ NeverTrue /\ interval > 0) =>
        /\ calls >= 1
        /\ (calls - 2) * interval < timeout
        /\ outcome.state # "fulfilled"
        /\ outcome.state = "rejected" =>
              /\ IsOwnTimeoutError(outcome.err)
              /\ outcome.err.timeout = timeout
              /\ results # << >>

\* C11 witness: three falsy checks one interval apart, the third at the timeout.
C11_Witness ==
    /\ IsUntil
    /\ NeverTrue
    /\ interval = 1
    /\ timeout = 2
    /\ calls = 3
    /\ outcome.state = "rejected"
    /\ settledAt - startTime = timeout


\* the synchronous run of condition() with the outcome a check observed
AsBehaviour(observed, error) ==
    [how |-> IF observed = "threw" THEN "throw" ELSE "return",
     value |-> IF observed = "threw" THEN Undefined ELSE Bool(observed = "truthy"),
     err |-> IF observed = "threw" THEN error ELSE NoError,
     took |-> 0]

SameSynchronously == AsBehaviour(LastResult, condError)

\* C12: when the promise returned by condition() settles with no time passed
\* since condition() returned, check() does what it would have done had
\* condition() returned the same truth value or thrown the same error
\* synchronously: the same settlement of the returned promise, the same timer
\* armed for the next invocation, and no invocation more or less.
C12_DeferredLikeSynchronous ==
    [][(IsUntil /\ awaiting > 0 /\ inflight' < inflight /\ now = lastCheck.at) =>
          LET eff == CheckRun(SameSynchronously', now - startTime, timeout)
          IN  /\ PromiseEffects(eff, outcome, now)
              /\ TimerEffects(eff, timers, interval, now)
              /\ phase' = PhaseOf(eff)
              /\ Len(results') = Len(results) + 1
              /\ calls' = calls
              /\ awaiting' = 0]_vars

\* C12 witness: two checks, the second through a promise that settled falsy
\* with no time passed, ended the call with a TimeoutError.
C12_Witness ==
    /\ IsUntil
    /\ lastCheck.via = "await"
    /\ settledAt = lastCheck.at
    /\ results = <<"falsy", "falsy">>
    /\ phase = "TIMED_OUT"
    /\ outcome = Rejected(TimeoutError(timeout))

\* C22 as stated: an omitted interval or timeout is replaced by 200 or 30000
\* before validation, so that it never fails validation, and a value that is
\* supplied, 0 included, is never replaced by the default.
C22_SuppliedValueNeverReplaced ==
    /\ IsUntil =>
          /\ options.interval = Undefined => interval = 200
          /\ options.timeout = Undefined => timeout = 30000
          /\ options.interval # Undefined => Num(interval) = options.interval
          /\ options.timeout # Undefined => Num(timeout) = options.timeout
    /\ thrown.message = "Interval must be a non-negative number" =>
          options.interval # Undefined
    /\ thrown.message = "Timeout must be a non-negative number" =>
          options.timeout # Undefined

\* C22 as amended: an interval or timeout that is omitted or null is replaced
\* by 200 or 30000 before validation, so that it never fails validation; any
\* other supplied value, 0 included, is never replaced by the default.
C22_DefaultsForOmittedOrNull ==
    /\ IsUntil =>
          /\ options.interval \in {Undefined, Null} => interval = 200
          /\ options.timeout \in {Undefined, Null} => timeout = 30000
          /\ options.interval \notin {Undefined, Null} => Num(interval) = options.interval
          /\ options.timeout \notin {Undefined, Null} => Num(timeout) = options.timeout
    /\ thrown.message = "Interval must be a non-negative number" =>
          options.interval \notin {Undefined, Null}
    /\ thrown.message = "Timeout must be a non-negative number" =>
          options.timeout \notin {Undefined, Null}

\* C22 witness: interval 0 was supplied and kept, the timeout was omitted and
\* is 30000, and the call waits on a timer of 0.
C22_Witness ==
    /\ IsUntil
    /\ options = [interval |-> Num(0), timeout |-> Undefined]
    /\ interval = 0
    /\ timeout = 30000
    /\ phase = "WAITING"
    /\ \E t \in timers : t.due = lastCheck.at

(***************************************************************************)
(* Properties of two concurrent calls, under specification Concurrent.     *)
(***************************************************************************)
thisCall == <<op, condition, options, interval, timeout, startTime, phase, path, armed,
              fired, inflight, awaiting, calls, results, condError, lastCheck, outcome,
              settledAt, thrown>>
OwnTimers == {t \in timers : t.cb = "check"}
TimersOfPeer == {t \in timers : t.cb = "peerCheck"}

C13_CounterPollFulfils ==
    /\ []((scen.name = "counter" /\ IsUntil) =>
            /\ interval = 10
            /\ timeout = 500
            /\ outcome.state # "rejected"
            /\ outcome.state = "fulfilled" =>
                  /\ settledAt - startTime < 500
                  /\ counter >= 5)
    /\ (scen.name = "counter") ~> (outcome.state = "fulfilled")

\* C13 witness: the call was fulfilled by a check that ran after the fifth
\* increment, at a moment when a sixth was already due.
C13_Witness ==
    /\ scen.name = "counter"
    /\ outcome = Fulfilled(Undefined)
    /\ counter = 5
    /\ LastResult = "truthy"
    /\ calls >= 10
    /\ settledAt - startTime > 100

\* C15: with interval 0 every check after the first runs in a timer callback
\* of its own and one timer is pending between two checks, so the program's
\* setTimeout callback gets to run; the first check after it fulfills the
\* call, which is never rejected in this program.
C15_ZeroIntervalYields ==
    /\ []((scen.name = "ready" /\ IsUntil) =>
            /\ interval = 0
            /\ calls = fired + 1
            /\ outcome.state # "rejected"
            /\ phase = "WAITING" => Cardinality(timers) = 1
            /\ outcome.state = "fulfilled" => (counter >= 1 /\ calls >= 2))
    /\ [][(scen.name = "ready" /\ counter >= 1 /\ calls' = calls + 1) =>
            outcome'.state = "fulfilled"]_vars

\* C15 witness: the program's timer callback has run after a falsy check, at
\* the same clock value, while the timer of the next check is pending.
C15_Witness ==
    /\ scen.name = "ready"
    /\ interval = 0
    /\ phase = "WAITING"
    /\ lastCheck.at = now
    /\ counter = 1
    /\ calls >= 2
    /\ calls < MaxPollChecks
    /\ \E t \in timers : t.cb = "check" /\ t.due <= now

\* C35: a plain value returned by condition() is acted on in the run of
\* check() that obtained it, with no suspension: the step that invokes
\* condition() also fulfills, rejects or arms the timer, according to the
\* value the program's state gives at that very step, and the program's own
\* callback runs only before or after such a step, never with an invocation
\* still to be acted on.
C35_PlainValueActedOnAtOnce ==
    /\ [](IsUntil =>
            /\ awaiting = 0
            /\ inflight = 0
            /\ phase # "CHECKING"
            /\ Len(results) = calls
            /\ lastCheck.via = "sync"
            /\ lastCheck.done = lastCheck.at)
    /\ [][(op' = "until" /\ calls' = calls + 1) =>
            /\ counter' = counter
            /\ results'[Len(results')] =
                   (IF counter >= scen.target THEN "truthy" ELSE "falsy")
            /\ counter >= scen.target => outcome' = Fulfilled(Undefined)
            /\ counter < scen.target =>
                  \/ outcome'.state = "rejected"
                  \/ (outcome' = Pending /\ armed' = armed + 1)]_vars
    /\ [][(IsUntil /\ counter' # counter) =>
            UNCHANGED <<calls, results, outcome, timers, armed, phase>>]_vars

\* C35 witness: the program's callback made the condition true while the call
\* was waiting for its next timer, after a check had reported falsy and had
\* armed that timer.
C35_Witness ==
    /\ scen.name = "counter"
    /\ IsUntil
    /\ phase = "WAITING"
    /\ counter >= scen.target
    /\ LastResult = "falsy"
    /\ Len(results) = calls
    /\ Cardinality(timers) = 1

(***************************************************************************)
(* Properties of delay and random.                                         *)
(***************************************************************************)
IsDelayed == op \in {"delay", "random"} /\ phase \in {"SLEEPING", "DONE"}

C17_DelayRejectsBadArgument ==
    (op = "delay" /\ (ms.typ \in {"string", "null", "undefined"}
                        \/ (IsFinite(ms) /\ Halves(ms) < 0))) =>
        /\ phase = "THREW"
        /\ thrown.cls = "Error"
        /\ thrown.message = "Delay must be a non-negative number"
        /\ armed = 0
        /\ timers = {}
        /\ outcome = NoPromise

\* C17 witness: delay(-1) has thrown.
C17_Witness ==
    /\ op = "delay"
    /\ ms = Num(-1)
    /\ phase = "THREW"
    /\ thrown.message = "Delay must be a non-negative number"

\* C18: delay(durationMs) fails validation for every durationMs that is not a
\* finite number >= 0, NaN and +Infinity included.
C18_DelayRejectsNonFinite ==
    (op = "delay" /\ ~(IsFinite(ms) /\ Halves(ms) >= 0)) =>
        /\ phase = "THREW"
        /\ thrown # NoError
        /\ armed = 0

\* C19: for all finite 0 <= min <= max, random(min, max) computes one integer
\* d with min <= d <= max, whatever Math.random() returns, and calls delay
\* exactly once with d.
C19_RandomIntegerWithinBounds ==
    (op = "random" /\ IsFinite(rmin) /\ IsFinite(rmax)
        /\ 0 <= Halves(rmin) /\ Halves(rmin) <= Halves(rmax)) =>
        /\ IsDelayed
        /\ armed = 1
        /\ IsInteger(ms)
        /\ Halves(rmin) <= Halves(ms)
        /\ Halves(ms) <= Halves(rmax)

\* C20: random checks, in this order, that both bounds are numbers, that
\* neither is negative and that min <= max, and reports the first rule that
\* is violated; a validation failure is thrown during the call and delay is
\* never called.
C20_RandomValidatesInOrder ==
    op = "random" =>
        LET notNumbers == TypeOf(rmin) # "number" \/ TypeOf(rmax) # "number"
            negative == JsLess(rmin, Num(0)) \/ JsLess(rmax, Num(0))
            disordered == JsLess(rmax, rmin)
        IN  /\ notNumbers =>
                thrown.message = "Both min and max must be numbers"
            /\ (~notNumbers /\ negative) =>
                thrown.message = "Both min and max must be non-negative numbers"
            /\ (~notNumbers /\ ~negative /\ disordered) =>
                thrown.message = "min must be less than or equal to max"
            /\ (notNumbers \/ negative \/ disordered) =>
                /\ phase = "THREW"
                /\ thrown.cls = "Error"
                /\ ms = Undefined
                /\ calledAt = NoField
                /\ armed = 0
                /\ timers = {}
                /\ outcome = NoPromise
            /\ ~(notNumbers \/ negative \/ disordered) => thrown = NoError

\* C20 witness: random(-1, -2), a negative pair with min > max, has reported
\* the non-negativity failure.
C20_Witness ==
    /\ op = "random"
    /\ rmin = Num(-1)
    /\ rmax = Num(-2)
    /\ phase = "THREW"
    /\ thrown.message = "Both min and max must be non-negative numbers"

\* C21: when min == max (finite and not negative), random calls delay with
\* exactly that value and arms one timer, whatever Math.random() returns.
C21_EqualBoundsExactDelay ==
    (op = "random" /\ IsFinite(rmin) /\ rmin = rmax /\ Halves(rmin) >= 0) =>
        /\ IsDelayed
        /\ ms = rmin
        /\ calledAt # NoField
        /\ armed = 1
        /\ thrown = NoError

\* C21 witness: random(2, 2) has called delay(2) and its promise is fulfilled.
C21_Witness ==
    /\ op = "random"
    /\ rmin = Num(2)
    /\ rmax = Num(2)
    /\ ms = Num(2)
    /\ phase = "DONE"
    /\ settledAt >= calledAt + 2

(***************************************************************************)
(* Properties of the error classes.                                        *)
(***************************************************************************)
\* C24: new TimeoutError(t, message) stores t in its timeout field whether or
\* not a message is given; its message is the given message, or
\* 'Condition not met within {t}ms timeout' when none is given; its name is
\* 'TimeoutError'; it is an instance of TimeoutError and of Error and not of
\* ValidationError, and neither a ValidationError nor a plain Error is an
\* instance of TimeoutError.
C24_TimeoutErrorFields ==
    /\ op = "TimeoutError" =>
          /\ made.error.timeout = made.timeout
          /\ made.error.name = "TimeoutError"
          /\ made.message.typ = "string" => made.error.message = made.message.text
          /\ made.message.typ # "string" =>
                made.error.message =
                    "Condition not met within " \o NumToString(made.timeout) \o "ms timeout"
          /\ InstanceOf(made.error, "TimeoutError")
          /\ InstanceOf(made.error, "Error")
          /\ ~InstanceOf(made.error, "ValidationError")
    /\ op = "ValidationError" =>
          /\ made.error.name = "ValidationError"
          /\ InstanceOf(made.error, "Error")
          /\ ~InstanceOf(made.error, "TimeoutError")
    /\ condError.cls = "Error" =>
          /\ ~InstanceOf(condError, "TimeoutError")
          /\ ~InstanceOf(condError, "ValidationError")
    /\ (IsUntil /\ phase = "TIMED_OUT") =>
          /\ outcome.err.timeout = timeout
          /\ outcome.err.name = "TimeoutError"

\* C24 witness: new TimeoutError(3, 'Custom timeout message') keeps the
\* message and carries 3.
C24_Witness ==
    /\ op = "TimeoutError"
    /\ made.message = Message("Custom timeout message")
    /\ made.error.message = "Custom timeout message"
    /\ made.error.timeout = 3
    /\ made.error.name = "TimeoutError"

(***************************************************************************)
(* Properties of a caller that yields with delay, under Yielding.          *)
(***************************************************************************)
\* C23: delay(0) returns a pending promise; the promise is fulfilled only by
\* the callback of the timer delay armed, in a later run of the host, and by
\* then every timer of the caller that was due when delay(0) was called has
\* run.
C23_ZeroDelayYields ==
    /\ []((op = "delay" /\ phase = "SLEEPING") => (outcome = Pending /\ timers # {}))
    /\ [][(outcome'.state = "fulfilled" /\ outcome.state # "fulfilled") =>
            /\ outcome.state = "pending"
            /\ fired' = fired + 1
            /\ timers' = {}
            /\ ms = Num(0) => (driver = NoDriver \/ driver.due > calledAt)]_vars

\* C23 witness: delay(0) has returned, its promise is pending, and a timer of
\* the caller that is already due has not run yet.
C23_Witness ==
    /\ op = "delay"
    /\ ms = Num(0)
    /\ phase = "SLEEPING"
    /\ outcome = Pending
    /\ now = calledAt
    /\ driver # NoDriver
    /\ driver.due <= calledAt

(***************************************************************************)
(* Properties of one iteration of check().                                 *)
(***************************************************************************)
\* a step in which a check of this call completed with a falsy outcome
FalsyCheckCompletes ==
    /\ op' = "until"
    /\ Len(results') = Len(results) + 1
    /\ results'[Len(results')] = "falsy"

\* C25: a check that completes with a falsy outcome does exactly one of two
\* things.  If now - start >= timeout, equality included, it rejects with a
\* TimeoutError and arms no timer.  Otherwise it leaves the call pending and
\* arms exactly one timer, due interval after the check; from then until that
\* timer fires nothing of the call changes.
C25_FalsyTimesOutOrArmsOnce ==
    /\ [][FalsyCheckCompletes =>
            IF now' - startTime' >= timeout'
            THEN /\ outcome' = Rejected(TimeoutError(timeout'))
                 /\ armed' = armed
                 /\ timers' = {}
            ELSE /\ outcome' = Pending
                 /\ armed' = armed + 1
                 /\ timers' = {[id |-> armed', due |-> now' + interval', cb |-> "check"]}]_vars
    /\ [][(IsUntil /\ phase = "WAITING") =>
            \/ UNCHANGED <<thisCall, timers>>
            \/ /\ fired' = fired + 1
               /\ calls' = calls + 1
               /\ \E t \in timers : t.due <= now /\ t \notin timers']_vars

\* C25 witness: a falsy check at exactly elapsed = timeout > 0 has timed the
\* call out after an earlier falsy check had armed a timer.
C25_Witness ==
    /\ IsUntil
    /\ phase = "TIMED_OUT"
    /\ timeout > 0
    /\ settledAt - startTime = timeout
    /\ armed = 1
    /\ fired = 1
    /\ results = <<"falsy", "falsy">>
    /\ timers = {}

\* a step in which a check of this call completed with a truthy outcome
TruthyCheckCompletes ==
    /\ op' = "until"
    /\ Len(results') = Len(results) + 1
    /\ results'[Len(results')] = "truthy"

\* C26: a check that completes with a truthy outcome fulfills the call, arms
\* no timer and produces no error, also when now - start has reached or passed
\* the timeout by then; a call that failed with until's TimeoutError has no
\* truthy outcome among its checks.
C26_TruthyBeatsTimeout ==
    /\ [][TruthyCheckCompletes =>
            /\ outcome' = Fulfilled(Undefined)
            /\ phase' = "SATISFIED"
            /\ armed' = armed
            /\ timers' = {}]_vars
    /\ []((IsUntil /\ outcome.state = "rejected" /\ IsOwnTimeoutError(outcome.err)) =>
            \A i \in 1..Len(results) : results[i] = "falsy")

\* C26 witness: the second check ran past the timeout, reported truthy after
\* an awaited promise, and the call fulfilled.
C26_Witness ==
    /\ IsUntil
    /\ timeout > 0
    /\ results = <<"falsy", "truthy">>
    /\ lastCheck.via = "await"
    /\ settledAt - startTime >= timeout
    /\ phase = "SATISFIED"
    /\ outcome = Fulfilled(Undefined)

\* C27: the interval runs from the moment the outcome of one check is known
\* to the start of the next check: a later check starts no earlier than
\* interval after the outcome of the check before it, so the starts of two
\* consecutive checks are at least latency + interval apart, the latency
\* being the time from the start of the earlier check to its outcome.
C27_FixedDelayBetweenChecks ==
    /\ [][(op' = "until" /\ calls > 0 /\ calls' = calls + 1) =>
            /\ lastCheck.done # NoField
            /\ lastCheck'.start = now
            /\ now >= lastCheck.done + interval
            /\ lastCheck'.start - lastCheck.start >=
                   (lastCheck.done - lastCheck.start) + interval]_vars
    /\ []((IsUntil /\ calls >= 2) =>
            /\ lastCheck.before.done >= lastCheck.before.start
            /\ lastCheck.start >= lastCheck.before.done + interval)

\* C27 witness: the first check awaited a promise for some time; the second
\* check started exactly interval after that promise settled.
C27_Witness ==
    /\ IsUntil
    /\ calls = 2
    /\ interval > 0
    /\ lastCheck.before.done > lastCheck.before.start
    /\ lastCheck.start = lastCheck.before.done + interval
    /\ lastCheck.start - lastCheck.before.start > interval

\* C28: the start timestamp is taken once, when until is entered and before
\* the first check, and never changes afterwards; every iteration compares
\* now minus that same timestamp with the timeout, and the elapsed time of an
\* iteration is never smaller than that of the iteration before it.
C28_StartTimeFixedAtEntry ==
    /\ [][(op = "none" /\ op' = "until" /\ phase' # "THREW") =>
            /\ startTime' = now
            /\ calls' = 1
            /\ lastCheck'.start = startTime']_vars
    /\ [][op = "until" => startTime' = startTime]_vars
    /\ [][(IsUntil /\ FalsyCheckCompletes) =>
            (outcome'.state = "rejected" <=> now' - startTime >= timeout)]_vars
    /\ [](IsUntil =>
            /\ startTime <= lastCheck.start
            /\ (lastCheck.done # NoField /\ calls >= 2) =>
                  lastCheck.done - startTime >= lastCheck.before.done - startTime)

\* C28 witness: a call entered at time 1 is at its third check, each check
\* with a larger elapsed time than the one before.
C28_Witness ==
    /\ IsUntil
    /\ startTime = 1
    /\ calls = 3
    /\ lastCheck.before.done - startTime > 0
    /\ lastCheck.done # NoField
    /\ lastCheck.done - startTime > lastCheck.before.done - startTime

\* every way a run of check() can end, from its start or from the await
CheckEndings ==
    {CheckRun(beh, e, to) : beh \in CondBehaviours, e \in 0..MaxTime, to \in 0..MaxTimeoutArg}
        \cup {CheckResume(s, e, to) : s \in Settlements, e \in 0..MaxTime,
                                      to \in 0..MaxTimeoutArg}

\* C30: once the call has fulfilled, timed out or failed it stays as it is:
\* condition() is not invoked again, no timer of the call is pending and none
\* is armed later, nothing is awaited, and the outcome never changes again.  A
\* run of check() calls at most one of resolve and reject, and arms no timer
\* when it calls one, so the outcome is settled exactly once.
C30_TerminalStatesAbsorbing ==
    /\ []((IsUntil /\ Settled(outcome)) =>
            /\ timers = {}
            /\ inflight = 0
            /\ awaiting = 0
            /\ fired = armed
            /\ phase \in {"SATISFIED", "TIMED_OUT", "FAILED"}
            /\ settledAt = lastCheck.done)
    /\ [][(IsUntil /\ Settled(outcome)) =>
            UNCHANGED <<op, phase, path, calls, armed, fired, inflight, awaiting, results,
                        timers, outcome, settledAt, condError, lastCheck>>]_vars
    /\ [][(op' = "until" /\ Settled(outcome') /\ outcome' # outcome) =>
            /\ ~Settled(outcome)
            /\ Len(results') = Len(results) + 1]_vars
    /\ [](\A eff \in CheckEndings :
            /\ ~(eff.resolve /\ eff.reject)
            /\ (eff.resolve \/ eff.reject) => ~eff.arm)

\* C30 witness: a call failed by an error of its second check; time has
\* passed since, nothing is pending and nothing more has run.
C30_Witness ==
    /\ IsUntil
    /\ phase = "FAILED"
    /\ calls = 2
    /\ results = <<"falsy", "threw">>
    /\ now > settledAt
    /\ timers = {}
    /\ armed = 1
    /\ fired = 1

\* C33: an error thrown synchronously by condition(), in the first check or
\* in a timer callback, is never thrown by the until call itself: the call
\* has returned its promise and that promise is rejected with the error.  A
\* validation failure is thrown by the call itself, before condition() is
\* invoked, and no promise is returned that could be rejected.
C33_ErrorsDeferredValidationSynchronous ==
    /\ [](op = "until" =>
            /\ phase = "THREW" <=> thrown # NoError
            /\ phase = "THREW" =>
                  /\ thrown = UntilValidation(condition, options)
                  /\ thrown.ref = "until"
                  /\ outcome = NoPromise
                  /\ calls = 0
                  /\ armed = 0
            /\ phase # "THREW" =>
                  /\ UntilValidation(condition, options) = NoError
                  /\ outcome # NoPromise
                  /\ (Len(results) > 0 /\ LastResult = "threw") =>
                        /\ outcome = Rejected(condError)
                        /\ condError.ref = "condition"
                        /\ outcome.err # thrown)
    /\ [][(op' = "until" /\ thrown' # thrown) => (op = "none" /\ calls' = 0)]_vars

\* C33 witness: condition() threw an Error synchronously in the timer
\* callback of the second check; the returned promise is rejected with it.
C33_Witness ==
    /\ IsUntil
    /\ results = <<"falsy", "threw">>
    /\ lastCheck.via = "sync"
    /\ fired = 1
    /\ condError = PlainError("Condition check failed", "condition")
    /\ outcome = Rejected(condError)
    /\ thrown = NoError

\* C34: the first run of condition() starts inside the until call, at the
\* clock value of the call and with no timer armed before it; at every moment
\* of a call the number of condition() invocations is the number of its
\* timers that have fired plus one, and once the call has ended the number of
\* timers armed is the number of invocations minus one.
C34_InvocationsAndTimers ==
    /\ [][(op = "none" /\ op' = "until" /\ phase' # "THREW") =>
            /\ calls' = 1
            /\ fired' = 0
            /\ timers = {}
            /\ lastCheck'.start = now
            /\ lastCheck'.start = startTime'
            /\ armed' \in {0, 1}]_vars
    /\ [](IsUntil =>
            /\ calls = fired + 1
            /\ calls = Len(results) + inflight
            /\ armed - fired = Cardinality(timers)
            /\ Settled(outcome) => armed = calls - 1)

\* C34 witness: a call that ended SATISFIED at its third invocation, two
\* timers armed and fired.
C34_Witness ==
    /\ IsUntil
    /\ phase = "SATISFIED"
    /\ calls = 3
    /\ armed = 2
    /\ fired = 2
    /\ results = <<"falsy", "falsy", "truthy">>

\* C36 as stated: every value condition() returns that has a callable then
\* is awaited before its truthiness is tested, whatever kind of value carries
\* the then; a returned value without a callable then is acted on as it is.
C36_EveryThenableAwaited ==
    [][(op' = "until" /\ phase' # "THREW" /\ calls' = calls + 1) =>
          IF lastCheck'.thenable
          THEN /\ awaiting' = awaiting + 1
               /\ results' = results
               /\ outcome' = Pending
               /\ armed' = armed
          ELSE /\ awaiting' = awaiting
               /\ Len(results') = Len(results) + 1]_vars

(***************************************************************************)
(* Properties of a call whose options object is changed, under Mutating.   *)
(***************************************************************************)
\* C29: interval and timeout are read from the options when until is
\* entered and never afterwards: assignments to the options object while the
\* call is pending change neither the delay of the timers armed later, nor
\* the timeout the elapsed time is compared with, nor the timeout carried by
\* the TimeoutError; and no step of until changes the options object.
C29_OptionsReadOnceAtEntry ==
    /\ [][(op = "none" /\ op' = "until" /\ phase' # "THREW") =>
            /\ interval' = ResolvedInterval(options').val
            /\ timeout' = ResolvedTimeout(options').val]_vars
    /\ [][op = "until" => (interval' = interval /\ timeout' = timeout)]_vars
    /\ [][(op = "until" /\ armed' = armed + 1) =>
            \E t \in timers' : t.id = armed' /\ t.due = now' + interval]_vars
    /\ [][(IsUntil /\ FalsyCheckCompletes) =>
            /\ outcome'.state = "rejected" <=> now' - startTime >= timeout
            /\ outcome'.state = "rejected" => outcome'.err = TimeoutError(timeout)]_vars
    /\ [][(op = "until" /\ options' # options) =>
            UNCHANGED <<now, calls, fired, armed, inflight, awaiting, results, timers,
                        outcome, phase, lastCheck>>]_vars

\* C29 witness: the caller raised options.timeout and changed options.interval
\* while the call was pending; a later check still timed the call out at the
\* timeout read at entry, before the new one was reached.
C29_Witness ==
    /\ IsUntil
    /\ phase = "TIMED_OUT"
    /\ calls >= 2
    /\ ResolvedInterval(options).val # interval
    /\ ResolvedTimeout(options).val > timeout
    /\ settledAt - startTime < ResolvedTimeout(options).val
    /\ outcome.err.timeout = timeout

(***************************************************************************)
(* Properties of a call run by a fair host, under Terminating.             *)
(***************************************************************************)
\* C31: with a finite timeout and interval that pass validation, when every
\* promise returned by condition() settles, every armed timer fires and the
\* clock keeps advancing, the call eventually is SATISFIED, TIMED_OUT or
\* FAILED, also when condition() never reports truthy; until then one timer
\* is pending or one promise is awaited, so the call can always go on.
C31_EventuallyTerminal ==
    /\ IsUntil ~> (phase \in {"SATISFIED", "TIMED_OUT", "FAILED"})
    /\ []((IsUntil /\ phase \notin {"SATISFIED", "TIMED_OUT", "FAILED"}) =>
            /\ Cardinality(timers) + awaiting = 1
            /\ now - startTime < timeout \/ burst = 0 \/ awaiting = 1
            /\ \A i \in 1..Len(results) : results[i] = "falsy")

\* C31 witness: condition() was never truthy, three checks ran at different
\* clock values, and the call ended TIMED_OUT.
C31_Witness ==
    /\ IsUntil
    /\ phase = "TIMED_OUT"
    /\ interval > 0
    /\ timeout > interval
    /\ results = <<"falsy", "falsy", "falsy">>
    /\ settledAt - startTime >= timeout

(***************************************************************************)
(* Properties of a never-true call with exact timers, under Punctual.      *)
(***************************************************************************)
\* C32 as stated: with a synchronous never-true condition, exact timers and
\* interval > 0, the TimeoutError is delivered at an elapsed time e with
\* timeout <= e < timeout + interval.
C32_OvershootBelowInterval ==
    (IsUntil /\ phase = "TIMED_OUT") =>
        /\ timeout <= settledAt - startTime
        /\ settledAt - startTime < timeout + interval

\* C32 as amended: the TimeoutError is never delivered while elapsed <
\* timeout; the check that delivers it started at an elapsed time below
\* timeout + interval, so it is delivered at e with
\* timeout <= e < timeout + interval + d, d being the time that last run of
\* condition() took; when that run took no time, e < timeout + interval.
C32_OvershootBelowIntervalPlusLatency ==
    /\ (IsUntil /\ phase = "TIMED_OUT") =>
          /\ timeout <= settledAt - startTime
          /\ settledAt = lastCheck.done
          /\ lastCheck.start - startTime < timeout + interval
          /\ settledAt - startTime < timeout + interval + (lastCheck.done - lastCheck.start)
          /\ lastCheck.done = lastCheck.start => settledAt - startTime < timeout + interval
    /\ (IsUntil /\ now - startTime < timeout) => outcome.state = "pending"

\* C32 witness: timeout 1, interval 2, condition() taking no time: the second
\* check, at elapsed 2, delivered the TimeoutError.
C32_Witness ==
    /\ IsUntil
    /\ phase = "TIMED_OUT"
    /\ timeout = 1
    /\ interval = 2
    /\ calls = 2
    /\ lastCheck.done = lastCheck.start
    /\ settledAt - startTime = 2

====
